---- MODULE Spec2Model ----
(***************************************************************************)
(* The session-scoped request gateway of go-adk: the session registry      *)
(* (service.SessionManager / main.go SessionManager), the chat handler     *)
(* (handler.HandleChat / the /api/chat closure of main.go) with its        *)
(* per-session mutex, and the engine-side session store and agent runner   *)
(* the handler drives; and the lifecycle of the process (main and          *)
(* Server.Start): interrupt, Shutdown with its timeout, exit.              *)
(*                                                                         *)
(* Spec is the serving process, which no interrupt reaches.  LifeSpec is   *)
(* the process from start to exit while it serves one conversation.        *)
(*                                                                         *)
(* Every chat request is one goroutine, r \in Reqs.  A ChatSession is a    *)
(* heap object: objs[o] is the object at address o, sessions maps an id    *)
(* to an address.  The clock counts ticks; the id generator formats it     *)
(* with second resolution.                                                 *)
(***************************************************************************)
EXTENDS Integers, Sequences, FiniteSets, TLC

\* Bounds of the model.
MaxReqs == 2          \* chat requests over the process lifetime
MaxEvents == 1        \* elements one agent run delivers at most
MaxTime == 1          \* last tick of the clock
TicksPerSecond == 2   \* clock ticks that fall in one second
MaxInterrupts == 2    \* interrupts delivered over the process lifetime
ShutdownTimeout == 5  \* seconds Shutdown is given: 5*time.Second

Reqs == 1..MaxReqs
NoReq == 0            \* "no goroutine": an unlocked mutex
NoSess == 0           \* nil *ChatSession

Methods == {"POST", "GET"}
Messages == {"", "hi"}
\* session_id a client may send without having talked to the server: none,
\* or an id of its own.
ClientIDs == {"", "abc"}

AgentName == "helper_agent"

\* MCP_ENDPOINT in the environment of the process: unset or empty, or a URL.
MCPEndpoints == {"", "http://localhost:3000/mcp"}

VARIABLES
    now,          \* the clock, in ticks, when it was last read
    sessions,     \* SessionManager.sessions: id -> address of its ChatSession
    objs,         \* the ChatSessions allocated so far, by address
    smMu,         \* SessionManager.mu: the goroutine holding it, or NoReq
    svc,          \* engine session store: id -> the events recorded for it
    pc,           \* per request: where its goroutine stands in HandleChat
    req,          \* per request: the decoded ChatRequest
    chatSess,     \* per request: the *ChatSession GetOrCreate returned
    err,          \* per request: err of SessionService.Get, while in use
    createErr,    \* per request: createErr of SessionService.Create
    events,       \* per request: the events the range loop has received
    responseText, \* per request: the strings.Builder
    resp,         \* per request: the ChatResponse written
    phase,        \* where the process stands between start and exit
    interrupts,   \* os.Interrupt signals delivered to the process so far
    elapsed,      \* seconds since shutdownCtx was created
    shutdownErr,  \* what httpServer.Shutdown returned, as logged
    mcpEndpoint,  \* os.Getenv("MCP_ENDPOINT")
    info          \* the last answer of an informational handler

\* The state of Start and of the signal context of main.
life == <<phase, interrupts, elapsed, shutdownErr, mcpEndpoint, info>>

\* The state of the registry, the handlers and the engine.
chat == <<now, sessions, objs, smMu, svc, pc, req, chatSess,
          err, createErr, events, responseText, resp>>

vars == <<now, sessions, objs, smMu, svc, pc, req, chatSess,
          err, createErr, events, responseText, resp, life>>

----------------------------------------------------------------------------
\* Values

NoRequest == [Method |-> "", Valid |-> FALSE, Message |-> "", SessionID |-> ""]
NoResp == [Status |-> 0, Response |-> "", SessionID |-> "", Error |-> ""]

\* Mutant: an error is answered with a server-error status.
ChatResponseErrorStatus(response, sessionID, error) ==
    [Status |-> IF error = "" THEN 200 ELSE 500, Response |-> response,
     SessionID |-> sessionID, Error |-> error]

\* json.NewEncoder(w).Encode(ChatResponse{...}) with no WriteHeader: 200.
ChatResponse(response, sessionID, error) ==
    [Status |-> 200, Response |-> response, SessionID |-> sessionID,
     Error |-> error]

\* json.NewEncoder(w).Encode(c) for a ChatResponse c: the members of the
\* JSON object written.  "response" and "session_id" are always written,
\* "error" carries omitempty.
Encode(c) ==
    [k \in {"response", "session_id"}
              \cup (IF c.Error = "" THEN {} ELSE {"error"}) |->
        CASE k = "response" -> c.Response
          [] k = "session_id" -> c.SessionID
          [] k = "error" -> c.Error]

\* http.Error(w, "Method not allowed", http.StatusMethodNotAllowed); the
\* chi router answers the same for a route registered with r.Post only.
MethodNotAllowed ==
    [Status |-> 405, Response |-> "", SessionID |-> "", Error |-> ""]

Fallback == "O agente processou a mensagem, mas não retornou uma resposta."

\* What the requests a client can send decode to.  A body that is not JSON
\* leaves the ChatRequest at its zero value, and so does a request whose
\* method is not POST, which is answered before its body is read.
\* The session_id is one of ClientIDs or one a response has returned.
Requests ==
    { [Method |-> "POST", Valid |-> TRUE, Message |-> msg, SessionID |-> sid] :
        msg \in Messages,
        sid \in ClientIDs \cup { resp[q].SessionID : q \in DOMAIN resp } }
    \cup { [Method |-> m, Valid |-> FALSE, Message |-> "", SessionID |-> ""] :
              m \in Methods }

\* Events the agent run can deliver: nil content, or content with parts.
NilEvent == [HasContent |-> FALSE, Parts |-> <<>>]
Events ==
    { NilEvent,
      [HasContent |-> TRUE, Parts |-> <<"a", "", "b">>] }

\* Errors of the engine session store and of the agent run.
ErrNotFound == "session not found"
ErrAlreadyExists == "session already exists"
ErrStore == "store unavailable"
ErrAgent == "agent failed"

\* The error of a context whose deadline has passed.
DeadlineExceeded == "context deadline exceeded"

\* The process runs: main has not returned and log.Fatalf has not ended
\* it.  Its goroutines take steps.
Alive == phase \notin {"stopped", "fatal"}

\* The listener of ListenAndServe takes connections until Shutdown closes it.
Accepting == phase \in {"serving", "cancelled"}

\* The routes of the informational handlers.
InfoEndpoints == {"/", "/health", "/api/tools"}

\* No informational request has been answered.
NoInfo == [Path |-> "", Status |-> 0, Body |-> ""]

\* Mutant: the handlers answer 503 while a handler of a turn is running.
InfoResponseBusy(path) ==
    [Path |-> path,
     Status |-> IF \E r \in DOMAIN pc : pc[r] \notin {"idle", "done"}
                THEN 503 ELSE 200,
     Body |-> ""]

\* HandleRoot, HandleHealth, HandleTools: what each writes.  WriteHeader(200)
\* in the first two; the first Encode of the third writes 200.  Of the JSON
\* bodies the model keeps "service" and "mcp_endpoint".
InfoResponse(path) ==
    [Path |-> path,
     Status |-> 200,
     Body |-> CASE path = "/" -> "ADK Agent with MCP Tools"
                [] path = "/health" -> "OK"
                [] path = "/api/tools" -> mcpEndpoint]

\* GET on one of the informational routes: the handler writes its answer.
\* It calls nothing of the registry, takes no lock and waits for nothing.
HandleInfo(path) ==
    /\ Accepting
    /\ info' = InfoResponse(path)
    /\ UNCHANGED <<phase, interrupts, elapsed, shutdownErr, mcpEndpoint>>
    /\ UNCHANGED chat

----------------------------------------------------------------------------
\* The session registry

Digit == <<"0", "1", "2", "3", "4", "5", "6", "7", "8", "9">>

\* time.Time.Format("20060102150405"): the time to the second; tick 0 is
\* 2006-01-02 15:04:05.
Format(t) ==
    LET sec == 5 + (t \div TicksPerSecond)
    IN  "200601021504" \o Digit[(sec \div 10) + 1] \o Digit[(sec % 10) + 1]

\* generateSessionID() when time.Now() returns t
generateSessionID(t) == Format(t)

\* Mutant: the id of the request is ignored, an id is always generated.
ResolveAlwaysGenerate(sessionID, t) == generateSessionID(t)

\* if sessionID == "" { sessionID = generateSessionID() }
ResolveID(sessionID, t) ==
    IF sessionID = "" THEN generateSessionID(t) ELSE sessionID

\* Mutant: the lookup is skipped, every call allocates.
NeverExists(sessionID) == FALSE

\* chatSession, exists := sm.sessions[sessionID]
Exists(sessionID) == sessionID \in DOMAIN sessions

\* Mutant: the new session does not record its id.
NewChatSessionNoID(sessionID) ==
    [ID |-> "", Agent |-> AgentName, History |-> <<>>, Mu |-> NoReq]

\* &ChatSession{ID: sessionID, Agent: a, History: []*genai.Content{}}
NewChatSession(sessionID) ==
    [ID |-> sessionID, Agent |-> AgentName, History |-> <<>>, Mu |-> NoReq]

\* Mutant: sm.mu.Lock() without the deferred unlock.
SmMuKept(r) == r

\* defer sm.mu.Unlock(), run as GetOrCreate returns to goroutine r
SmMuOnReturn(r) == NoReq

\* sm.mu.Lock()
SmLock(r) ==
    /\ Alive
    /\ UNCHANGED life
    /\ pc[r] = "getorcreate"
    /\ smMu = NoReq
    /\ smMu' = r
    /\ pc' = [pc EXCEPT ![r] = "registry"]
    /\ UNCHANGED <<now, sessions, objs, svc, req, chatSess,
                   err, createErr, events, responseText, resp>>

\* The instants time.Now() can return to a caller that reads the clock: the
\* clock never runs backwards.  A call that does not read it passes no time.
ClockReads(sessionID) ==
    IF sessionID = "" THEN now..MaxTime ELSE {now}

\* The body of GetOrCreate under sm.mu, and its deferred unlock.
GetOrCreate(r) ==
    /\ Alive
    /\ UNCHANGED life
    /\ pc[r] = "registry"
    /\ smMu = r
    /\ \E t \in ClockReads(req[r].SessionID) :
         LET sessionID == ResolveID(req[r].SessionID, t)
         IN  /\ now' = t
             /\ IF Exists(sessionID)
                THEN /\ chatSess' =
                          [chatSess EXCEPT ![r] = sessions[sessionID]]
                     /\ UNCHANGED <<sessions, objs>>
                ELSE LET o == Len(objs) + 1
                     IN  /\ objs' = Append(objs, NewChatSession(sessionID))
                         /\ sessions' =
                              [k \in DOMAIN sessions \cup {sessionID} |->
                                 IF k = sessionID THEN o ELSE sessions[k]]
                         /\ chatSess' = [chatSess EXCEPT ![r] = o]
    /\ smMu' = SmMuOnReturn(r)
    /\ pc' = [pc EXCEPT ![r] = "lock"]
    /\ UNCHANGED <<svc, req, err, createErr, events, responseText, resp>>

----------------------------------------------------------------------------
\* The chat handler

\* Mutant: the error of Decode is ignored.
ValidateMessageOnly(request) ==
    IF request.Message = "" THEN "Message is required" ELSE ""

\* Mutant: the check of req.Message is missing.
ValidateJSONOnly(request) ==
    IF ~request.Valid THEN "Invalid JSON format" ELSE ""

\* The checks of HandleChat before the registry is used: "" lets the
\* request through, anything else is the error answered.
Validate(request) ==
    IF ~request.Valid THEN "Invalid JSON format"
    ELSE IF request.Message = "" THEN "Message is required"
    ELSE ""

\* Mutant: the handler is registered for every method.
AnyMethodAllowed(method) == TRUE

\* if r.Method != http.MethodPost { 405 } in main.go; r.Post("/api/chat", ...)
\* in SetupRouter, where the router answers the other methods with 405.
MethodAllowed(method) == method = "POST"

\* A request out of requests is accepted, decoded and validated.
ArriveFrom(r, requests) ==
    /\ Accepting
    /\ UNCHANGED life
    /\ pc[r] = "idle"
    /\ \A q \in Reqs : q < r => pc[q] # "idle"
    /\ \E request \in requests :
         /\ req' = [req EXCEPT ![r] = request]
         /\ IF ~MethodAllowed(request.Method)
            THEN /\ resp' = [resp EXCEPT ![r] = MethodNotAllowed]
                 /\ pc' = [pc EXCEPT ![r] = "done"]
            ELSE IF Validate(request) # ""
            THEN /\ resp' = [resp EXCEPT ![r] =
                                ChatResponse("", "", Validate(request))]
                 /\ pc' = [pc EXCEPT ![r] = "done"]
            ELSE /\ resp' = resp
                 /\ pc' = [pc EXCEPT ![r] = "getorcreate"]
    /\ UNCHANGED <<now, sessions, objs, smMu, svc, chatSess,
                   err, createErr, events, responseText>>

\* A request arrives.
Arrive(r) == ArriveFrom(r, Requests)

\* Mutant: Lock does not wait.
MuAlwaysFree(o) == TRUE

\* Mutant: one mutex for all sessions.
MuGlobalFree(o) == \A p \in 1..Len(objs) : objs[p].Mu = NoReq

\* sync.Mutex.Lock returns only when the mutex is unlocked.
MuFree(o) == objs[o].Mu = NoReq

\* chatSess.Mu.Lock()
MuLock(r) ==
    /\ Alive
    /\ UNCHANGED life
    /\ pc[r] = "lock"
    /\ MuFree(chatSess[r])
    /\ objs' = [objs EXCEPT ![chatSess[r]].Mu = r]
    /\ pc' = [pc EXCEPT ![r] = "get"]
    /\ UNCHANGED <<now, sessions, smMu, svc, req, chatSess,
                   err, createErr, events, responseText, resp>>

\* session.GetRequest{AppName, SessionID}: the request names no user.
GetUserID == ""

\* session.CreateRequest{AppName, SessionID, UserID: "default-user"}, and the
\* user AgentRunner.Run names.
CreateUserID == "default-user"

\* The engine store keeps a session under the user and the id it was created
\* with; every session of this process is created under CreateUserID.
Stored(userID, id) == userID = CreateUserID /\ id \in DOMAIN svc

\* The failures of the engine store itself.
StoreFailures == {ErrStore}

\* SessionService.Get: finds the engine session of the user and id it is
\* asked for, or fails; if err != nil the handler goes on to Create.
SessionServiceGetFrom(r, failures) ==
    /\ Alive
    /\ UNCHANGED life
    /\ pc[r] = "get"
    /\ \E e \in {"", ErrNotFound} \cup failures :
         /\ e = "" => Stored(GetUserID, objs[chatSess[r]].ID)
         /\ e = ErrNotFound => ~Stored(GetUserID, objs[chatSess[r]].ID)
         /\ err' = [err EXCEPT ![r] = e]
         /\ pc' = [pc EXCEPT ![r] = IF e = "" THEN "run" ELSE "create"]
    /\ UNCHANGED <<now, sessions, objs, smMu, svc, req, chatSess,
                   createErr, events, responseText, resp>>

SessionServiceGet(r) == SessionServiceGetFrom(r, StoreFailures)

\* Mutant: every error of Create is taken for "already exists".
AnyCreateErrorTolerated(e) == TRUE

\* strings.Contains(createErr.Error(), "already exists")
IsAlreadyExists(e) == e \in {ErrAlreadyExists}

\* Mutant: an explicit Unlock at the end of the handler, missing on the
\* early return after a failed Create.
UnlockAtEndOnly(r) ==
    IF pc[r] = "stream" THEN [objs EXCEPT ![chatSess[r]].Mu = NoReq] ELSE objs

\* defer chatSess.Mu.Unlock(): the heap once the handler of r has returned.
DeferredUnlock(r) == [objs EXCEPT ![chatSess[r]].Mu = NoReq]

\* Mutant: after an execution error the message is submitted again.
ReturnOrRetry(r, response) ==
    IF pc[r] = "stream" /\ response.Error # ""
    THEN /\ pc' = [pc EXCEPT ![r] = "run"]
         /\ responseText' = [responseText EXCEPT ![r] = ""]
         /\ events' = [events EXCEPT ![r] = <<>>]
         /\ UNCHANGED <<resp, objs, err, createErr>>
    ELSE /\ resp' = [resp EXCEPT ![r] = response]
         /\ objs' = [objs EXCEPT ![chatSess[r]].Mu = NoReq]
         /\ responseText' = [responseText EXCEPT ![r] = ""]
         /\ events' = [events EXCEPT ![r] = <<>>]
         /\ err' = [err EXCEPT ![r] = ""]
         /\ createErr' = [createErr EXCEPT ![r] = ""]
         /\ pc' = [pc EXCEPT ![r] = "done"]

\* HandleChat returns with response: the response is written, the deferred
\* unlock runs, the locals are gone.
Return(r, response) ==
    /\ resp' = [resp EXCEPT ![r] = response]
    /\ objs' = DeferredUnlock(r)
    /\ responseText' = [responseText EXCEPT ![r] = ""]
    /\ events' = [events EXCEPT ![r] = <<>>]
    /\ err' = [err EXCEPT ![r] = ""]
    /\ createErr' = [createErr EXCEPT ![r] = ""]
    /\ pc' = [pc EXCEPT ![r] = "done"]

\* Mutant: the bootstrap error is answered without the session id.
BootstrapErrorNoID(id, e) ==
    ChatResponse("", "", "Failed to create session: " \o e)

\* ChatResponse{SessionID: chatSess.ID, Error: "Failed to create session: "
\* + createErr.Error()}
BootstrapError(id, e) ==
    ChatResponse("", id, "Failed to create session: " \o e)

\* SessionService.Create, and the handler's treatment of its error.
SessionServiceCreateFrom(r, failures) ==
    /\ Alive
    /\ UNCHANGED life
    /\ pc[r] = "create"
    /\ LET id == objs[chatSess[r]].ID
       IN  \E e \in {"", ErrAlreadyExists} \cup failures :
             /\ e = "" => ~Stored(CreateUserID, id)
             /\ e = ErrAlreadyExists => Stored(CreateUserID, id)
             /\ svc' = IF e = ""
                       THEN [k \in DOMAIN svc \cup {id} |->
                               IF k = id THEN <<>> ELSE svc[k]]
                       ELSE svc
             /\ IF e # "" /\ ~IsAlreadyExists(e)
                THEN Return(r, BootstrapError(id, e))
                ELSE /\ pc' = [pc EXCEPT ![r] = "run"]
                     /\ err' = [err EXCEPT ![r] = ""]
                     /\ createErr' = [createErr EXCEPT ![r] = e]
                     /\ UNCHANGED <<objs, events, responseText, resp>>
    /\ UNCHANGED <<now, sessions, smMu, req, chatSess>>

SessionServiceCreate(r) == SessionServiceCreateFrom(r, StoreFailures)

\* The events of turn r the engine has recorded for session id.
Delivered(id, r) ==
    IF id \in DOMAIN svc
    THEN { i \in 1..Len(svc[id]) :
             svc[id][i].turn = r /\ svc[id][i].role = "model" }
    ELSE {}

\* AgentRunner.Run: the user content is recorded on the engine session.
RunnerRun(r) ==
    /\ Alive
    /\ UNCHANGED life
    /\ pc[r] = "run"
    /\ LET id == objs[chatSess[r]].ID
       IN  svc' = [svc EXCEPT ![id] =
                     Append(@, [turn |-> r, role |-> "user"])]
    /\ pc' = [pc EXCEPT ![r] = "stream"]
    /\ createErr' = [createErr EXCEPT ![r] = ""]
    /\ UNCHANGED <<now, sessions, objs, smMu, req, chatSess,
                   err, events, responseText, resp>>

RECURSIVE PartsText(_)
\* for _, part := range event.Content.Parts: the non-empty texts, in order
PartsText(parts) ==
    IF parts = <<>> THEN ""
    ELSE IF Head(parts) # "" THEN Head(parts) \o PartsText(Tail(parts))
    ELSE PartsText(Tail(parts))

\* Mutant: only the first part of an event is written.
EventTextFirstPart(event) ==
    IF event.HasContent /\ Len(event.Parts) > 0
    THEN event.Parts[1]
    ELSE ""

\* What one loop iteration writes to responseText for event.
EventText(event) ==
    IF event.HasContent /\ Len(event.Parts) > 0
    THEN PartsText(event.Parts)
    ELSE ""

\* One iteration of the range loop over an event, the agent delivering one
\* of evs.
AgentEventFrom(r, evs) ==
    /\ Alive
    /\ UNCHANGED life
    /\ pc[r] = "stream"
    /\ LET id == objs[chatSess[r]].ID
       IN  /\ Cardinality(Delivered(id, r)) < MaxEvents
           /\ \E event \in evs :
                /\ responseText' =
                     [responseText EXCEPT ![r] = @ \o EventText(event)]
                /\ events' = [events EXCEPT ![r] = Append(@, event)]
                /\ svc' = [svc EXCEPT ![id] =
                             Append(@, [turn |-> r, role |-> "model"])]
    /\ UNCHANGED <<now, sessions, objs, smMu, pc, req, chatSess,
                   err, createErr, resp>>

AgentEvent(r) == AgentEventFrom(r, Events)

\* Mutant: the text gathered before the error is sent with the error.
ExecutionErrorWithText(r, lastError) ==
    ChatResponse(responseText[r], objs[chatSess[r]].ID,
                 "Failed to process message: " \o lastError)

\* ChatResponse{SessionID: chatSess.ID, Error: "Failed to process message: "
\* + lastError.Error()}
ExecutionError(r, lastError) ==
    ChatResponse("", objs[chatSess[r]].ID,
                 "Failed to process message: " \o lastError)

\* The loop meets an error element: break, then the error response.
AgentError(r) ==
    /\ Alive
    /\ UNCHANGED life
    /\ pc[r] = "stream"
    /\ LET lastError == ErrAgent
       IN  Return(r, ExecutionError(r, lastError))
    /\ UNCHANGED <<now, sessions, smMu, svc, req, chatSess>>

\* Mutant: the gathered text is the reply even when it is empty.
ResponseStrRaw(text) == text

\* responseStr := responseText.String(); if responseStr == "" { the
\* fallback sentence }
ResponseStr(text) == IF text = "" THEN Fallback ELSE text

\* The sequence is exhausted: the reply, or the fallback for no text.
AgentDone(r) ==
    /\ Alive
    /\ UNCHANGED life
    /\ pc[r] = "stream"
    /\ Return(r, ChatResponse(ResponseStr(responseText[r]),
                              objs[chatSess[r]].ID, ""))
    /\ UNCHANGED <<now, sessions, smMu, svc, req, chatSess>>

----------------------------------------------------------------------------
\* The system

\* Mutant: the server is built whatever MCP_ENDPOINT holds.
NewServerUnchecked(endpoint) == "serving"

\* NewServer: if mcpEndpoint == "" it returns an error and main ends the
\* process with log.Fatalf (startHTTPServer of main.go calls log.Fatalf
\* itself); otherwise the server is built and Start serves it.
NewServer(endpoint) == IF endpoint = "" THEN "fatal" ELSE "serving"

\* The state once main has built the server, or has failed to.
Init ==
    /\ now = 0
    /\ sessions = [k \in {} |-> NoSess]
    /\ objs = <<>>
    /\ smMu = NoReq
    /\ svc = [k \in {} |-> <<>>]
    /\ pc = [r \in Reqs |-> "idle"]
    /\ req = [r \in Reqs |-> NoRequest]
    /\ chatSess = [r \in Reqs |-> NoSess]
    /\ err = [r \in Reqs |-> ""]
    /\ createErr = [r \in Reqs |-> ""]
    /\ events = [r \in Reqs |-> <<>>]
    /\ responseText = [r \in Reqs |-> ""]
    /\ resp = [r \in Reqs |-> NoResp]
    /\ mcpEndpoint \in MCPEndpoints
    /\ phase = NewServer(mcpEndpoint)
    /\ interrupts = 0
    /\ elapsed = 0
    /\ shutdownErr = ""
    /\ info = NoInfo

Next ==
    \/ \E r \in Reqs : Arrive(r)
    \/ \E r \in Reqs : SmLock(r)
    \/ \E r \in Reqs : GetOrCreate(r)
    \/ \E r \in Reqs : MuLock(r)
    \/ \E r \in Reqs : SessionServiceGet(r)
    \/ \E r \in Reqs : SessionServiceCreate(r)
    \/ \E r \in Reqs : RunnerRun(r)
    \/ \E r \in Reqs : AgentEvent(r)
    \/ \E r \in Reqs : AgentError(r)
    \/ \E r \in Reqs : AgentDone(r)

Spec == Init /\ [][Next]_vars

----------------------------------------------------------------------------
\* The process lifecycle: main and Server.Start

\* Mutant: an interrupt after the first ends the process on the spot.
InterruptExits(ph) == IF ph = "serving" THEN "cancelled" ELSE "stopped"

\* ctx, stop := signal.NotifyContext(context.Background(), os.Interrupt);
\* defer stop().  The first interrupt cancels ctx.  stop runs only when main
\* returns, so the signal stays registered and a later interrupt is taken
\* and dropped.
NotifyContext(ph) == IF ph = "serving" THEN "cancelled" ELSE ph

\* The process receives os.Interrupt.
Interrupt ==
    /\ Alive
    /\ interrupts < MaxInterrupts
    /\ interrupts' = interrupts + 1
    /\ phase' = NotifyContext(phase)
    /\ UNCHANGED <<elapsed, shutdownErr, mcpEndpoint, info>>
    /\ UNCHANGED chat

\* <-ctx.Done() returns in Start: shutdownCtx is created and
\* httpServer.Shutdown closes the listener.
Shutdown ==
    /\ phase = "cancelled"
    /\ phase' = "draining"
    /\ elapsed' = 0
    /\ UNCHANGED <<interrupts, shutdownErr, mcpEndpoint, info>>
    /\ UNCHANGED chat

\* A second passes while Shutdown waits.
Tick ==
    /\ phase = "draining"
    /\ elapsed < ShutdownTimeout
    /\ elapsed' = elapsed + 1
    /\ UNCHANGED <<phase, interrupts, shutdownErr, mcpEndpoint, info>>
    /\ UNCHANGED chat

\* Mutant: Shutdown does not wait for the handlers (Close).
IdleAlways(r) == TRUE

\* The connection of r is idle: no handler runs for it.
Idle(r) == pc[r] \in {"idle", "done"}

\* Shutdown finds every connection idle and returns nil; Start logs and
\* returns, main returns.
ShutdownReturnsNil ==
    /\ phase = "draining"
    /\ \A r \in Reqs : Idle(r)
    /\ phase' = "stopped"
    /\ shutdownErr' = ""
    /\ UNCHANGED <<interrupts, elapsed, mcpEndpoint, info>>
    /\ UNCHANGED chat

\* Mutant: shutdownCtx without a deadline.
NeverExpired(e) == FALSE

\* shutdownCtx.Done() is closed once the timeout has passed.
Expired(e) == e >= ShutdownTimeout

\* Shutdown returns shutdownCtx.Err(); Start logs it and returns, main
\* returns with handlers still running.
ShutdownTimesOut ==
    /\ phase = "draining"
    /\ Expired(elapsed)
    /\ phase' = "stopped"
    /\ shutdownErr' = DeadlineExceeded
    /\ UNCHANGED <<interrupts, elapsed, mcpEndpoint, info>>
    /\ UNCHANGED chat

\* The requests sent while the lifecycle is examined: one conversation.
LifeRequests ==
    { [Method |-> "POST", Valid |-> TRUE, Message |-> "hi",
       SessionID |-> "abc"] }

LifeArrive(r) == ArriveFrom(r, LifeRequests)

LifeNext ==
    \/ \E r \in Reqs : LifeArrive(r)
    \/ \E r \in Reqs : SmLock(r)
    \/ \E r \in Reqs : GetOrCreate(r)
    \/ \E r \in Reqs : MuLock(r)
    \/ \E r \in Reqs : SessionServiceGet(r)
    \/ \E r \in Reqs : SessionServiceCreate(r)
    \/ \E r \in Reqs : RunnerRun(r)
    \/ \E r \in Reqs : AgentEvent(r)
    \/ \E r \in Reqs : AgentError(r)
    \/ \E r \in Reqs : AgentDone(r)
    \/ Interrupt
    \/ Shutdown
    \/ Tick
    \/ ShutdownReturnsNil
    \/ ShutdownTimesOut

\* The process from start to exit, serving one conversation.
LifeSpec == Init /\ [][LifeNext]_vars

\* The main goroutine is scheduled and time passes; no request has to
\* finish.
LifeFairSpec ==
    LifeSpec /\ WF_vars(Shutdown \/ Tick \/ ShutdownReturnsNil \/ ShutdownTimesOut)

----------------------------------------------------------------------------
\* Vocabulary of the properties

\* r is between chatSess.Mu.Lock() and the deferred Unlock.
InTurn(r) == pc[r] \in {"get", "create", "run", "stream"}

\* GetOrCreate has returned a session to r.
Resolved(r) == chatSess[r] # NoSess

\* The id of the session r resolved.
SessID(r) == objs[chatSess[r]].ID

\* One step of the goroutine of r.
Step(r) ==
    \/ SmLock(r) \/ GetOrCreate(r) \/ MuLock(r)
    \/ SessionServiceGet(r) \/ SessionServiceCreate(r)
    \/ RunnerRun(r) \/ AgentEvent(r) \/ AgentError(r) \/ AgentDone(r)

\* The turns that recorded something on the engine session id.
TurnsOf(id) == { svc[id][i].turn : i \in 1..Len(svc[id]) }

----------------------------------------------------------------------------
\* C1: per-session mutual exclusion: at no time are two turns on the same
\* session id both between acquiring the session's lock and releasing it.
C1_MutualExclusion ==
    \A r1, r2 \in Reqs :
        (r1 # r2 /\ InTurn(r1) /\ InTurn(r2)) => SessID(r1) # SessID(r2)

\* A turn drains the agent's sequence while a second turn on the same
\* session waits for the lock.
C1_Witness ==
    \E r1, r2 \in Reqs :
        /\ r1 # r2
        /\ pc[r1] = "stream" /\ pc[r2] = "lock"
        /\ chatSess[r1] = chatSess[r2]

\* C2: turns on different sessions run in parallel: a request that cannot
\* take a step is either waiting for the registry's critical section, whose
\* holder can finish it, or waiting for a session lock held by a turn on the
\* same session; a turn on another session never blocks it.
C2_DifferentSessionsParallel ==
    \A r \in Reqs :
        (pc[r] \notin {"idle", "done"} /\ ~ENABLED Step(r)) =>
            \/ /\ pc[r] = "getorcreate"
               /\ smMu \in Reqs
               /\ pc[smMu] = "registry"
               /\ ENABLED GetOrCreate(smMu)
            \/ /\ pc[r] = "lock"
               /\ \E q \in Reqs \ {r} : InTurn(q) /\ SessID(q) = SessID(r)

\* Two turns on different sessions hold their locks at the same time, both
\* draining the agent's sequence.
C2_Witness ==
    \E r1, r2 \in Reqs :
        /\ pc[r1] = "stream" /\ pc[r2] = "stream"
        /\ SessID(r1) # SessID(r2)
        /\ objs[chatSess[r1]].Mu = r1 /\ objs[chatSess[r2]].Mu = r2

\* C3: registry uniqueness: one Session was ever allocated per id, the
\* Session a call returned is the one registered under its id, and calls with
\* the same non-empty id all got the same Session.
C3_RegistryUniqueness ==
    /\ \A o1, o2 \in 1..Len(objs) : objs[o1].ID = objs[o2].ID => o1 = o2
    /\ \A r \in Reqs :
         Resolved(r) =>
            /\ SessID(r) \in DOMAIN sessions
            /\ sessions[SessID(r)] = chatSess[r]
    /\ \A r1, r2 \in Reqs :
         ( /\ Resolved(r1) /\ Resolved(r2)
           /\ req[r1].SessionID # ""
           /\ req[r1].SessionID = req[r2].SessionID )
         => chatSess[r1] = chatSess[r2]

\* Two requests in flight at once, with the same non-empty id, were both
\* handed the same Session.
C3_Witness ==
    \E r1, r2 \in Reqs :
        /\ r1 # r2
        /\ pc[r1] \in {"lock", "get"} /\ pc[r2] = "lock"
        /\ req[r1].SessionID # "" /\ req[r1].SessionID = req[r2].SessionID
        /\ chatSess[r1] = chatSess[r2] /\ Resolved(r1)

\* C4: calls of GetOrCreate with an empty id yield distinct sessions: no two
\* requests sent without session_id are handed the same Session.
C4_EmptyIdsDistinct ==
    \A r1, r2 \in Reqs :
        ( /\ r1 # r2
          /\ Resolved(r1) /\ Resolved(r2)
          /\ req[r1].SessionID = "" /\ req[r2].SessionID = "" )
        => chatSess[r1] # chatSess[r2]

\* C5: the session lock is released on every exit path: a request that has
\* returned holds no session lock, a locked session is locked by a turn now
\* executing on it, and a turn waiting for a session on which no turn
\* executes finds the lock free.
C5_LockReleased ==
    /\ \A r \in Reqs : \A o \in 1..Len(objs) :
         pc[r] = "done" => objs[o].Mu # r
    /\ \A o \in 1..Len(objs) :
         objs[o].Mu # NoReq =>
            /\ objs[o].Mu \in Reqs
            /\ InTurn(objs[o].Mu)
            /\ chatSess[objs[o].Mu] = o
    /\ \A r \in Reqs :
         ( /\ pc[r] = "lock"
           /\ ~\E q \in Reqs : InTurn(q) /\ chatSess[q] = chatSess[r] )
         => ENABLED MuLock(r)

\* A turn ended in an error after it had locked its session, and a later
\* turn on the same session holds the lock.
C5_Witness ==
    \E r1, r2 \in Reqs :
        /\ r1 # r2
        /\ pc[r1] = "done" /\ Resolved(r1) /\ resp[r1].Error # ""
        /\ chatSess[r2] = chatSess[r1]
        /\ pc[r2] = "stream" /\ objs[chatSess[r2]].Mu = r2

\* C6: two-tier lock discipline: the registry lock is held only inside
\* GetOrCreate; a request that waits for a session lock, holds one, calls the
\* engine session store or drains the agent's sequence does not hold it.
C6_TwoTierLocks ==
    /\ smMu # NoReq => (smMu \in Reqs /\ pc[smMu] = "registry")
    /\ \A r \in Reqs :
         (pc[r] = "lock" \/ InTurn(r)
            \/ \E o \in 1..Len(objs) : objs[o].Mu = r)
         => smMu # r

\* One request is inside GetOrCreate while another holds a session lock and
\* drains the agent's sequence.
C6_Witness ==
    \E r1, r2 \in Reqs :
        /\ smMu = r1 /\ pc[r1] = "registry"
        /\ pc[r2] = "stream" /\ objs[chatSess[r2]].Mu = r2

\* C7: total order of the turns on one session: the engine's record of a
\* session is a sequence of whole per-turn blocks, each opened by the turn's
\* user message, and every block but the last belongs to a turn that has
\* returned; the last block is that of the lock holder or of a returned turn.
C7_TurnsInLockOrder ==
    \A id \in DOMAIN svc :
        LET log == svc[id]
        IN  /\ \A i, k \in 1..Len(log) :
                 (i < k /\ log[i].turn = log[k].turn) =>
                    \A j \in i..k : log[j].turn = log[i].turn
            /\ \A i \in 1..Len(log) :
                 (log[i].role = "user") <=>
                    (i = 1 \/ log[i - 1].turn # log[i].turn)
            /\ \A i \in 1..Len(log) :
                 pc[log[i].turn] # "done" =>
                    /\ log[Len(log)].turn = log[i].turn
                    /\ InTurn(log[i].turn)
                    /\ SessID(log[i].turn) = id
                    /\ objs[chatSess[log[i].turn]].Mu = log[i].turn

\* The record of a session holds the whole block of one turn followed by
\* the block of a second turn.
C7_Witness ==
    \E id \in DOMAIN svc :
        /\ Len(svc[id]) >= 4
        /\ Cardinality(TurnsOf(id)) = 2
        /\ svc[id][2].role = "model" /\ svc[id][4].role = "model"

\* C8: a chat request with an empty message is rejected before the registry
\* is touched: its step changes neither the registry, nor a lock, nor the
\* engine, and it ends with the error "Message is required" and no session.
C8_EmptyMessageRejected ==
    /\ [](\A r \in Reqs :
            (req[r].Valid /\ req[r].Message = "") =>
               /\ pc[r] = "done"
               /\ resp[r] = ChatResponse("", "", "Message is required")
               /\ ~Resolved(r)
               /\ \A id \in DOMAIN svc : r \notin TurnsOf(id))
    /\ [][\A r \in Reqs :
            (pc[r] = "idle" /\ req'[r].Valid /\ req'[r].Message = "") =>
               UNCHANGED <<now, sessions, objs, smMu, svc, chatSess>>]_vars

\* A request with an empty message that names a registered session was
\* answered "Message is required".
C8_Witness ==
    \E r \in Reqs :
        /\ pc[r] = "done"
        /\ req[r].Valid /\ req[r].Message = ""
        /\ req[r].SessionID \in DOMAIN sessions
        /\ resp[r].Error = "Message is required"

\* C9: GetOrCreate is idempotent for a registered id: a call with a
\* non-empty registered id returns the Session registered under it and
\* changes no Session and no registry entry.
C9_GetOrCreateIdempotent ==
    [][\A r \in Reqs :
         ( /\ pc[r] = "registry" /\ pc'[r] = "lock"
           /\ req[r].SessionID # ""
           /\ req[r].SessionID \in DOMAIN sessions )
         => /\ chatSess'[r] = sessions[req[r].SessionID]
            /\ sessions' = sessions
            /\ objs' = objs]_vars

\* A first request with an explicit id has returned, and a second call of
\* GetOrCreate with the same id has returned the same Session.
C9_Witness ==
    \E r1, r2 \in Reqs :
        /\ r1 # r2
        /\ pc[r1] = "done" /\ Resolved(r1)
        /\ pc[r2] = "lock"
        /\ req[r1].SessionID = "abc" /\ req[r2].SessionID = "abc"
        /\ chatSess[r2] = chatSess[r1]

\* C10: GetOrCreate with a non-empty unregistered id allocates exactly one
\* Session, with that id, an empty history and an unlocked lock, registers
\* it under the id and returns it; the other Sessions and entries are
\* unchanged.
C10_FreshInsert ==
    [][\A r \in Reqs :
         ( /\ pc[r] = "registry" /\ pc'[r] = "lock"
           /\ req[r].SessionID # ""
           /\ req[r].SessionID \notin DOMAIN sessions )
         => LET o == chatSess'[r]
            IN  /\ o = Len(objs) + 1
                /\ Len(objs') = Len(objs) + 1
                /\ objs'[o].ID = req[r].SessionID
                /\ objs'[o].History = <<>>
                /\ objs'[o].Mu = NoReq
                /\ \A p \in 1..Len(objs) : objs'[p] = objs[p]
                /\ DOMAIN sessions' = DOMAIN sessions \cup {req[r].SessionID}
                /\ sessions'[req[r].SessionID] = o
                /\ \A k \in DOMAIN sessions : sessions'[k] = sessions[k]]_vars

\* A session is registered under the client's own id "abc" beside a
\* session registered under another id.
C10_Witness ==
    /\ "abc" \in DOMAIN sessions
    /\ objs[sessions["abc"]].ID = "abc"
    /\ Cardinality(DOMAIN sessions) = 2
    /\ \E r \in Reqs : req[r].SessionID = "abc" /\ chatSess[r] = sessions["abc"]

\* C11: session history grows with the conversation: the History of a
\* Session holds two entries (the user message, then the reply) for every
\* successful turn that has returned on it.
C11_HistoryGrowsByTwo ==
    \A o \in 1..Len(objs) :
        Len(objs[o].History) =
            2 * Cardinality({ r \in Reqs :
                                /\ pc[r] = "done" /\ chatSess[r] = o
                                /\ resp[r].Status = 200
                                /\ resp[r].Error = "" })

\* C12: the engine session is created only after Get has failed; when
\* Create succeeds or fails with "already exists" the turn goes on to run
\* the agent; when Create fails otherwise the turn ends with a
\* "Failed to create session" error that carries the session id, and the
\* agent has not been invoked for it.
C12_CreateStep(r) ==
    /\ pc'[r] = "create" => err'[r] # ""
    /\ (pc[r] = "get" /\ pc'[r] # "create") =>
           /\ err'[r] = "" /\ pc'[r] = "run"
           /\ svc' = svc
    /\ DOMAIN svc' # DOMAIN svc => pc[r] = "create"
    /\ pc[r] = "create" =>
           \/ /\ pc'[r] = "run"
              /\ createErr'[r] \in {"", ErrAlreadyExists}
              /\ SessID(r) \in DOMAIN svc'
              /\ resp'[r] = resp[r]
           \/ /\ pc'[r] = "done"
              /\ svc' = svc
              /\ resp'[r] = ChatResponse("", SessID(r),
                                "Failed to create session: " \o ErrStore)
              /\ SessID(r) \in DOMAIN svc => r \notin TurnsOf(SessID(r))

C12_BootstrapOrder ==
    [][\A r \in Reqs :
         (pc'[r] # pc[r] \/ events'[r] # events[r]) => C12_CreateStep(r)]_vars

\* A turn has ended on a failed Create after its Get failed, and a later
\* turn on the same session has gone on to the agent after its Create
\* succeeded.
C12_Witness ==
    \E r, q \in Reqs :
        /\ pc[r] = "done"
        /\ resp[r].Error = "Failed to create session: " \o ErrStore
        /\ pc[q] = "run" /\ createErr[q] = ""
        /\ SessID(q) = resp[r].SessionID
        /\ svc[SessID(q)] = <<>>

\* C13: the consumer stops at the first error element of the agent's
\* sequence: the step that meets it consumes nothing more and ends the turn
\* with a "Failed to process message" error that carries the session id and
\* none of the text received before it; no element is consumed after it.
C13_StopAtFirstError ==
    [][\A r \in Reqs :
         /\ (pc[r] = "stream" /\ pc'[r] = "done" /\ resp'[r].Error # "") =>
               /\ resp'[r] = ChatResponse("", SessID(r),
                               "Failed to process message: " \o ErrAgent)
               /\ svc' = svc
         /\ (pc[r] = "done" /\ Resolved(r) /\ SessID(r) \in DOMAIN svc) =>
               /\ pc'[r] = "done" /\ resp'[r] = resp[r]
               /\ Delivered(SessID(r), r)' = Delivered(SessID(r), r)]_vars

\* A turn ended in an execution error after an event had been delivered to
\* it.
C13_Witness ==
    \E r \in Reqs :
        /\ pc[r] = "done"
        /\ resp[r].Error = "Failed to process message: " \o ErrAgent
        /\ resp[r].Response = ""
        /\ Delivered(SessID(r), r) # {}

RECURSIVE Join(_)
\* The strings of a sequence joined in order.
Join(texts) ==
    IF texts = <<>> THEN "" ELSE Head(texts) \o Join(Tail(texts))

RECURSIVE AllParts(_)
\* The parts of a sequence of events, event after event.
AllParts(evs) ==
    IF evs = <<>> THEN <<>>
    ELSE (IF Head(evs).HasContent THEN Head(evs).Parts ELSE <<>>)
         \o AllParts(Tail(evs))

C15_SuccessNeverEmpty ==
    /\ [](\A r \in Reqs :
            (pc[r] = "done" /\ resp[r].Status = 200) =>
                /\ (resp[r].Response # "") # (resp[r].Error # "")
                /\ resp[r].Error = "" =>
                      /\ Resolved(r)
                      /\ resp[r].SessionID = SessID(r))
    /\ [][\A r \in Reqs :
            ( /\ pc[r] = "stream" /\ pc'[r] = "done"
              /\ resp'[r].Error = "" /\ responseText[r] = "" ) =>
                resp'[r].Response = Fallback]_vars

\* A turn whose agent run delivered an event without text ended with the
\* fallback sentence.
C15_Witness ==
    \E r \in Reqs :
        /\ pc[r] = "done" /\ resp[r].Status = 200 /\ resp[r].Error = ""
        /\ resp[r].Response = Fallback
        /\ Delivered(SessID(r), r) # {}

\* C16: every error response produced after the session was resolved
\* carries the id of that session, and the session stays registered: every
\* request that sends the returned id resolves to the same Session object.
C16_ErrorsCarrySession ==
    \A r \in Reqs :
        (pc[r] = "done" /\ Resolved(r) /\ resp[r].Error # "") =>
            /\ resp[r].SessionID = SessID(r)
            /\ resp[r].SessionID # ""
            /\ resp[r].SessionID \in DOMAIN sessions
            /\ sessions[resp[r].SessionID] = chatSess[r]
            /\ \A q \in Reqs :
                 (Resolved(q) /\ req[q].SessionID = resp[r].SessionID) =>
                     chatSess[q] = chatSess[r]

\* A request sent without session_id failed at bootstrap; the client sent
\* the returned id again and was handed the same Session.
C16_Witness ==
    \E r, q \in Reqs :
        /\ r # q
        /\ pc[r] = "done" /\ req[r].SessionID = ""
        /\ resp[r].Error = "Failed to create session: " \o ErrStore
        /\ req[q].SessionID = resp[r].SessionID
        /\ Resolved(q) /\ chatSess[q] = chatSess[r]
        /\ pc[q] \in {"get", "create", "run", "stream"}

\* The handler under a fair scheduler and an engine store that answers: the
\* registry and the session store return, a goroutine whose Lock can succeed
\* gets the lock.  Nothing makes the agent's sequence deliver its next
\* element or end: the run is handed context.Background(), which no deadline
\* and no cancellation ever reaches.
StallSpec ==
    /\ Spec
    /\ \A r \in Reqs :
         WF_vars(SmLock(r) \/ GetOrCreate(r) \/ MuLock(r)
                   \/ SessionServiceGet(r) \/ SessionServiceCreate(r)
                   \/ RunnerRun(r))

\* C17: a stalled agent call cannot wedge a session: a turn waiting for the
\* lock of a session eventually gets it, even when the agent call of the
\* turn that holds it never returns.
C17_StalledAgentCannotWedge ==
    \A r \in Reqs : (pc[r] = "lock") ~> (pc[r] # "lock")

\* The handler of r has been entered and has not returned.
InFlight(r) == pc[r] \notin {"idle", "done"}

\* Requests are still drained normally: a handler that returns while
\* Shutdown waits writes its response and the process goes on waiting; the
\* process does not stop with a handler running before the window has passed.
DrainStep ==
    /\ \A r \in Reqs :
         (phase = "draining" /\ InFlight(r) /\ pc'[r] = "done") =>
             /\ resp'[r].Status = 200
             /\ resp'[r].SessionID = SessID(r)
             /\ phase' = "draining"
    /\ (phase = "draining" /\ phase' = "stopped"
          /\ \E r \in Reqs : InFlight(r)) =>
             /\ elapsed = ShutdownTimeout
             /\ shutdownErr' = DeadlineExceeded
    /\ (phase' = "stopped" /\ shutdownErr' = "") =>
             \A r \in Reqs :
                 ~InFlight(r) /\ (pc[r] = "done" => resp[r] # NoResp)

C19_BoundedShutdown ==
    /\ [](/\ elapsed <= ShutdownTimeout
          /\ (phase = "draining" /\ elapsed = ShutdownTimeout) =>
                 ENABLED ShutdownTimesOut /\ ~ENABLED Tick
          /\ (phase = "stopped" /\ \E r \in Reqs : InFlight(r)) =>
                 shutdownErr = DeadlineExceeded /\ elapsed = ShutdownTimeout)
    /\ [][phase = "stopped" => UNCHANGED <<pc, resp, objs, svc>>]_vars
    /\ (phase \in {"cancelled", "draining"}) ~> (phase = "stopped")

\* The process has stopped on the timeout with one turn still draining the
\* agent's sequence and another still waiting for the lock of that session.
C19_Witness ==
    /\ phase = "stopped" /\ shutdownErr = DeadlineExceeded
    /\ \E r, q \in Reqs :
         /\ pc[r] = "stream" /\ pc[q] = "lock"
         /\ chatSess[q] = chatSess[r]

\* C20: shutdown is attempted once per process lifetime: the process goes
\* from serving to cancelled to draining to stopped and never back, and an
\* interrupt that arrives after the first starts no second shutdown, does
\* not shorten or restart the drain window and changes nothing else.
C20_ShutdownOnce ==
    [][/\ (interrupts' # interrupts /\ phase # "serving") =>
              /\ UNCHANGED <<phase, elapsed, shutdownErr>>
              /\ UNCHANGED chat
       /\ phase' # phase =>
              <<phase, phase'>> \in { <<"serving", "cancelled">>,
                                      <<"cancelled", "draining">>,
                                      <<"draining", "stopped">> }
       /\ elapsed' >= elapsed
       /\ shutdownErr' # shutdownErr =>
              phase = "draining" /\ phase' = "stopped"]_vars

\* Two interrupts have been delivered, and Shutdown is seconds into its one
\* window with a request in flight.
C20_Witness ==
    /\ phase = "draining" /\ interrupts >= 2 /\ elapsed > 0
    /\ \E r \in Reqs : InFlight(r)

\* C21: shutdown cancellation reaches the turns in flight: once the
\* lifecycle context is cancelled, the next step of a turn that waits for a
\* session lock or iterates the agent's sequence is to abort: it returns an
\* error and holds no lock; it neither takes the lock nor consumes another
\* element, and the process does not stop on the drain deadline with such a
\* turn still waiting.
C21_CancellationReachesTurns ==
    [][/\ \A r \in Reqs :
            ( /\ phase \in {"cancelled", "draining"}
              /\ pc[r] \in {"lock", "stream"}
              /\ <<pc[r], events[r]>>' # <<pc[r], events[r]>> ) =>
                /\ pc'[r] = "done"
                /\ resp'[r].Error # ""
                /\ objs'[chatSess[r]].Mu # r
       /\ (phase = "draining" /\ phase' = "stopped") =>
              \A r \in Reqs : pc[r] \notin {"lock", "stream"}]_vars

\* C22: fail-fast startup: with MCP_ENDPOINT absent or empty the server is
\* not built and the process has ended before the listener starts: in such
\* a run no request is ever accepted, no session is ever created, and the
\* process never serves.
C22_FailFastStartup ==
    mcpEndpoint = "" =>
        /\ phase = "fatal"
        /\ \A r \in Reqs : pc[r] = "idle" /\ resp[r] = NoResp
        /\ DOMAIN sessions = {} /\ objs = <<>>
        /\ ~ENABLED (\E r \in Reqs : Arrive(r))
        /\ ~ENABLED (\E r \in Reqs : LifeArrive(r))

\* The process was started without MCP_ENDPOINT and has ended in the fatal
\* error.
C22_Witness ==
    /\ mcpEndpoint = "" /\ phase = "fatal"
    /\ \A r \in Reqs : pc[r] = "idle"

\* C23: every failure of a turn of POST /api/chat (malformed JSON, empty
\* message, bootstrap error, execution error) is answered with status 200
\* and a non-empty error; a request has no response before its handler
\* returns, gets its response as it returns, and that response never
\* changes: one response body per request.
C23_FailuresAnswered200 ==
    /\ [](\A r \in Reqs :
            /\ (pc[r] = "done" /\ req[r].Method = "POST") =>
                  /\ resp[r].Status = 200
                  /\ (~req[r].Valid \/ req[r].Message = "") =>
                        resp[r].Error # ""
                  /\ resp[r].Response = "" => resp[r].Error # ""
            /\ pc[r] # "done" => resp[r] = NoResp)
    /\ [][\A r \in Reqs :
            /\ (pc[r] # "done" /\ pc'[r] = "done") => resp'[r] # NoResp
            /\ pc[r] = "done" => pc'[r] = "done" /\ resp'[r] = resp[r]]_vars

\* One request was rejected for its JSON and another failed in the agent
\* run; both were answered 200 with an error.
C23_Witness ==
    \E r, q \in Reqs :
        /\ pc[r] = "done" /\ pc[q] = "done"
        /\ resp[r] = [Status |-> 200, Response |-> "", SessionID |-> "",
                      Error |-> "Invalid JSON format"]
        /\ resp[q].Status = 200
        /\ resp[q].Error = "Failed to process message: " \o ErrAgent

\* How far the handler of a request has come.
Rank(p) ==
    CASE p = "idle" -> 0
      [] p = "getorcreate" -> 1
      [] p = "registry" -> 2
      [] p = "lock" -> 3
      [] p = "get" -> 4
      [] p = "create" -> 5
      [] p = "run" -> 6
      [] p = "stream" -> 7
      [] p = "done" -> 8

\* What turn r has submitted to the agent on session id.
Submitted(id, r) ==
    { i \in 1..Len(svc[id]) : svc[id][i].turn = r /\ svc[id][i].role = "user" }

\* C24: no internal retries: a handler only moves forward, so that it calls
\* Create at most once and submits its message to the agent at most once;
\* after a bootstrap or execution error it has returned, and nothing more
\* is submitted for it.
C24_NoRetries ==
    /\ [](\A r \in Reqs : \A id \in DOMAIN svc :
            /\ Cardinality(Submitted(id, r)) <= 1
            /\ (pc[r] # "done" /\ Rank(pc[r]) <= Rank("run")) =>
                   Submitted(id, r) = {})
    /\ [][\A r \in Reqs :
            /\ pc'[r] # pc[r] => Rank(pc'[r]) > Rank(pc[r])
            /\ (/\ pc[r] \in {"get", "create", "run"}
                /\ \/ SessionServiceGet(r) \/ SessionServiceCreate(r)
                   \/ RunnerRun(r)) =>
                   pc'[r] # pc[r]
            /\ \A id \in DOMAIN svc :
                 (pc[r] = "done" /\ resp[r].Error # "") =>
                     Submitted(id, r)' = Submitted(id, r)]_vars

\* A turn whose Create failed has returned with nothing submitted, and a
\* turn whose agent run failed has returned with its message submitted once.
C24_Witness ==
    \E r, q \in Reqs :
        /\ pc[r] = "done" /\ pc[q] = "done"
        /\ resp[r].Error = "Failed to create session: " \o ErrStore
        /\ resp[q].Error = "Failed to process message: " \o ErrAgent
        /\ SessID(r) = SessID(q)
        /\ Submitted(SessID(q), r) = {}
        /\ Cardinality(Submitted(SessID(q), q)) = 1

\* C25: sessions are never destroyed: in every step the registered ids only
\* grow, an id once registered stays mapped to the same Session object, and
\* that object keeps its place, its id and its agent.
C25_SessionsNeverDestroyed ==
    [][/\ DOMAIN sessions \subseteq DOMAIN sessions'
       /\ \A k \in DOMAIN sessions : sessions'[k] = sessions[k]
       /\ Len(objs') >= Len(objs)
       /\ \A o \in 1..Len(objs) :
            /\ objs'[o].ID = objs[o].ID
            /\ objs'[o].Agent = objs[o].Agent]_vars

\* Both requests have returned, the second on a session of its own, and the
\* session of the first is still registered.
C25_Witness ==
    /\ Cardinality(DOMAIN sessions) = 2
    /\ \A r \in Reqs : pc[r] = "done" /\ Resolved(r)
    /\ \E r, q \in Reqs : chatSess[r] # chatSess[q]
    /\ \A r \in Reqs : sessions[resp[r].SessionID] = chatSess[r]

\* C26: lock coverage: a turn between the engine-session check and the end
\* of the agent's sequence holds the lock of its session all along: it took
\* the lock before the check and gives it up only as it returns; the engine
\* session of an id is created or written to, and the history of a Session
\* changed, only by a turn that holds the lock of that session.
C26_LockCoverage ==
    /\ [](\A r \in Reqs : InTurn(r) => objs[chatSess[r]].Mu = r)
    /\ [][/\ \A r \in Reqs :
               /\ (~InTurn(r) /\ InTurn(r)') =>
                      /\ pc[r] = "lock" /\ pc'[r] = "get"
                      /\ objs[chatSess[r]].Mu = NoReq
               /\ (InTurn(r) /\ objs'[chatSess[r]].Mu # r) =>
                      pc[r] = "stream" \/ pc[r] = "create"
               /\ (InTurn(r) /\ ~InTurn(r)') => pc'[r] = "done"
          /\ \A id \in DOMAIN svc' :
               (id \notin DOMAIN svc \/ svc'[id] # svc[id]) =>
                   \E r \in Reqs :
                       /\ InTurn(r) /\ SessID(r) = id
                       /\ objs[chatSess[r]].Mu = r
                       /\ id \in DOMAIN svc =>
                            /\ Len(svc'[id]) = Len(svc[id]) + 1
                            /\ svc'[id][Len(svc'[id])].turn = r
          /\ \A o \in 1..Len(objs) :
               objs'[o].History # objs[o].History =>
                   \E r \in Reqs : InTurn(r) /\ chatSess[r] = o]_vars

\* A turn holds the lock of its session with an event of its agent run
\* received, while another turn on that session waits for the lock.
C26_Witness ==
    \E r, q \in Reqs :
        /\ pc[r] = "stream" /\ Len(events[r]) > 0
        /\ objs[chatSess[r]].Mu = r
        /\ pc[q] = "lock" /\ chatSess[q] = chatSess[r]

\* What the step that rejects request r does, but for the body written.
C27_Rejected(r) ==
    /\ pc'[r] = "done"
    /\ resp'[r].Status = 200
    /\ chatSess'[r] = NoSess
    /\ UNCHANGED <<sessions, objs, smMu, svc>>

\* The reason request r is rejected for.
C27_Reason(r) ==
    IF ~req'[r].Valid THEN "Invalid JSON format" ELSE "Message is required"

\* A request r is rejected in this step for its body.
C27_Rejects(r) ==
    /\ pc[r] = "idle" /\ pc'[r] # "idle"
    /\ req'[r].Method = "POST"
    /\ ~req'[r].Valid \/ req'[r].Message = ""

\* C27 as stated: a chat request whose body is not valid JSON is answered
\* with the error "Invalid JSON format" and no session_id: the body carries
\* only the error, no session_id and no response member; GetOrCreate is
\* not called and the registry is as it was.  A missing message is
\* answered in the same shape.
C27_ErrorOnlyBody ==
    [][\A r \in Reqs :
         C27_Rejects(r) =>
            /\ C27_Rejected(r)
            /\ Encode(resp'[r]) = [k \in {"error"} |-> C27_Reason(r)]]_vars

\* C27, amended: a chat request whose body is not valid JSON is answered
\* with the error "Invalid JSON format" and an empty session_id and an
\* empty response, both written in the body as empty strings; GetOrCreate
\* is not called for it, it holds no lock and the registry is as it was.  A
\* missing message is answered in the same shape, with the error "Message
\* is required".
C27_InvalidJSON ==
    /\ [](\A r \in Reqs :
            ( /\ pc[r] # "idle" /\ req[r].Method = "POST"
              /\ (~req[r].Valid \/ req[r].Message = "") ) =>
                /\ pc[r] = "done" /\ chatSess[r] = NoSess
                /\ \A o \in 1..Len(objs) : objs[o].Mu # r)
    /\ [][\A r \in Reqs :
            C27_Rejects(r) =>
               /\ C27_Rejected(r)
               /\ Encode(resp'[r]) =
                     [k \in {"response", "session_id", "error"} |->
                        IF k = "error" THEN C27_Reason(r) ELSE ""]]_vars

\* A request that is not JSON was rejected while a session was registered
\* and a turn was running on it.
C27_Witness ==
    \E r, q \in Reqs :
        /\ pc[r] = "done" /\ req[r].Method = "POST" /\ ~req[r].Valid
        /\ Encode(resp[r])["error"] = "Invalid JSON format"
        /\ Encode(resp[r])["session_id"] = ""
        /\ chatSess[r] = NoSess
        /\ InTurn(q) /\ DOMAIN sessions # {}

\* C28: a request to /api/chat with a method other than POST is answered
\* 405 Method Not Allowed and never reaches the turn logic: the step that
\* answers it leaves the registry, the locks and the engine alone, and the
\* request never has a session, a lock or an agent run.
C28_MethodNotAllowed ==
    /\ [](\A r \in Reqs :
            (pc[r] # "idle" /\ req[r].Method # "POST") =>
                /\ pc[r] = "done"
                /\ resp[r].Status = 405
                /\ resp[r].SessionID = "" /\ resp[r].Response = ""
                /\ chatSess[r] = NoSess
                /\ smMu # r
                /\ \A o \in 1..Len(objs) : objs[o].Mu # r
                /\ \A id \in DOMAIN svc : r \notin TurnsOf(id))
    /\ [][\A r \in Reqs :
            (pc[r] = "idle" /\ pc'[r] # "idle" /\ req'[r].Method # "POST") =>
                UNCHANGED <<sessions, objs, smMu, svc, chatSess>>]_vars

\* A GET was answered 405 while a turn was running on a registered session.
C28_Witness ==
    \E r, q \in Reqs :
        /\ pc[r] = "done" /\ req[r].Method = "GET"
        /\ resp[r].Status = 405
        /\ InTurn(q) /\ DOMAIN sessions # {}

\* Chat requests that are accepted and carry a message, on a session of the
\* client or on none.
TurnRequests ==
    { [Method |-> "POST", Valid |-> TRUE, Message |-> "hi", SessionID |-> sid] :
        sid \in ClientIDs }

TurnArrive(r) == ArriveFrom(r, TurnRequests)

\* What an element carries does not decide whether the loop ends.
TurnEvents == { NilEvent }

TurnAgentEvent(r) == AgentEventFrom(r, TurnEvents)

\* One step of the goroutine of r serving a turn.
TurnStep(r) ==
    \/ SmLock(r) \/ GetOrCreate(r) \/ MuLock(r)
    \/ SessionServiceGet(r) \/ SessionServiceCreate(r)
    \/ RunnerRun(r) \/ TurnAgentEvent(r) \/ AgentError(r) \/ AgentDone(r)

TurnNext ==
    \/ \E r \in Reqs : TurnArrive(r)
    \/ \E r \in Reqs : TurnStep(r)

\* The serving process under a fair scheduler, with an engine store that
\* answers and an agent whose sequences are finite: every handler that can
\* take a step eventually takes one.
FairSpec ==
    /\ Init /\ [][TurnNext]_vars
    /\ \A r \in Reqs : WF_vars(TurnStep(r))

\* C29: liveness of turns: with finite agent sequences and a fair scheduler
\* every accepted chat request with a non-empty message eventually returns,
\* so that from some point on no handler is in flight; it returns only while
\* holding the lock of its session, which it releases, and with its one
\* response, which is never replaced; and the registry lock and the session
\* locks never deadlock: while a handler has not returned, some handler can
\* take a step.
C29_TurnsLive ==
    /\ []((\E r \in Reqs : InFlight(r)) => \E r \in Reqs : ENABLED TurnStep(r))
    /\ <>[](\A r \in Reqs : ~InFlight(r))
    /\ [][\A r \in Reqs :
            /\ (InFlight(r) /\ ~InFlight(r)') =>
                  /\ Resolved(r) /\ objs[chatSess[r]].Mu = r
                  /\ objs'[chatSess[r]].Mu = NoReq
                  /\ pc'[r] = "done" /\ resp[r] = NoResp /\ resp'[r] # NoResp
            /\ pc[r] = "done" => (pc'[r] = "done" /\ resp'[r] = resp[r])]_vars

\* Two requests were accepted on the same session, each ran its turn under
\* the session's lock, and both have returned.
C29_Witness ==
    \E r, q \in Reqs :
        /\ r # q /\ pc[r] = "done" /\ pc[q] = "done"
        /\ Resolved(r) /\ chatSess[r] = chatSess[q]
        /\ SessID(r) \in DOMAIN svc /\ TurnsOf(SessID(r)) = {r, q}

\* C30: registry key invariant: every registry entry maps a non-empty key k
\* to a session whose ID is k; the ID of a session never changes once the
\* session exists; and the session_id a turn returns is the ID of the
\* session whose lock the turn held, which is the session_id of the request
\* whenever the request carried one.
C30_RegistryKey ==
    /\ [](\A k \in DOMAIN sessions :
            /\ k # ""
            /\ sessions[k] \in 1..Len(objs)
            /\ objs[sessions[k]].ID = k)
    /\ [][/\ Len(objs') >= Len(objs)
          /\ \A o \in 1..Len(objs) : objs'[o].ID = objs[o].ID]_vars
    /\ [][\A r \in Reqs :
            (InFlight(r) /\ pc'[r] = "done") =>
                \E o \in 1..Len(objs) :
                    /\ objs[o].Mu = r
                    /\ resp'[r].SessionID = objs[o].ID
                    /\ req[r].SessionID # "" =>
                           resp'[r].SessionID = req[r].SessionID]_vars

\* One turn returned the id the client sent and another the id generated for
\* it, and both ids are keys of the registry.
C30_Witness ==
    \E r, q \in Reqs :
        /\ pc[r] = "done" /\ pc[q] = "done"
        /\ req[r].SessionID = "abc" /\ resp[r].SessionID = "abc"
        /\ req[q].SessionID = "" /\ resp[q].SessionID = generateSessionID(now)
        /\ {"abc", generateSessionID(now)} \subseteq DOMAIN sessions

\* The serving process with a reliable engine store: Get and Create fail
\* only for what the store holds under the user and id they are asked for.
ReliableGet(r) == SessionServiceGetFrom(r, {})

ReliableCreate(r) == SessionServiceCreateFrom(r, {})

ReliableNext ==
    \/ \E r \in Reqs : Arrive(r)
    \/ \E r \in Reqs : SmLock(r)
    \/ \E r \in Reqs : GetOrCreate(r)
    \/ \E r \in Reqs : MuLock(r)
    \/ \E r \in Reqs : ReliableGet(r)
    \/ \E r \in Reqs : ReliableCreate(r)
    \/ \E r \in Reqs : RunnerRun(r)
    \/ \E r \in Reqs : AgentEvent(r)
    \/ \E r \in Reqs : AgentError(r)
    \/ \E r \in Reqs : AgentDone(r)

ReliableSpec == Init /\ [][ReliableNext]_vars

\* C31: engine-session creation is serialized by the session lock: the
\* engine-session check and Create of a turn run while the turn holds the
\* lock of its session, and with a reliable engine store Create is called
\* once for an id over the process lifetime, so that a Create call never
\* meets an engine session of its id and no turn receives "already exists".
C31_OneCreatePerID ==
    /\ [](\A r \in Reqs :
            /\ pc[r] \in {"get", "create"} => objs[chatSess[r]].Mu = r
            /\ createErr[r] # ErrAlreadyExists)
    /\ [][\A r \in Reqs :
            (pc[r] = "create" /\ pc'[r] # "create") =>
                SessID(r) \notin DOMAIN svc]_vars

\* The serving process with clients of the informational routes beside the
\* turns of one conversation.
InfoNext ==
    \/ \E r \in Reqs : LifeArrive(r)
    \/ \E r \in Reqs : TurnStep(r)
    \/ \E path \in InfoEndpoints : HandleInfo(path)

InfoSpec == Init /\ [][InfoNext]_vars

\* C32: the informational endpoints GET /, GET /health and GET /api/tools
\* take no lock and neither read nor change the registry: while the
\* listener is open each of them can answer, whatever locks are held and
\* whatever turns are running or waiting; every answer has status 200
\* (GET /health with the body OK); and the step that answers leaves the
\* registry, the sessions and their locks, the engine store and every
\* handler of a turn as they were.
C32_InfoEndpoints ==
    /\ [](/\ Accepting => \A path \in InfoEndpoints : ENABLED HandleInfo(path)
          /\ info # NoInfo =>
               /\ info.Path \in InfoEndpoints /\ info.Status = 200
               /\ info.Path = "/health" => info.Body = "OK")
    /\ [][info' # info =>
            /\ info'.Status = 200
            /\ UNCHANGED <<sessions, objs, smMu, svc>>
            /\ UNCHANGED <<pc, req, chatSess, resp, now>>]_vars

\* GET /health was answered 200 OK in the state where one turn holds the
\* lock of the only session and consumes the agent's sequence and another
\* turn waits for that lock.
C32_Witness ==
    \E r, q \in Reqs :
        /\ pc[r] = "stream" /\ pc[q] = "lock"
        /\ chatSess[r] = chatSess[q] /\ objs[chatSess[r]].Mu = r
        /\ Cardinality(DOMAIN sessions) = 1
        /\ info = [Path |-> "/health", Status |-> 200, Body |-> "OK"]

----------------------------------------------------------------------------
\* The monolithic variant: the registry and the chat handler of main.go

\* Mutant: the generated id carries a prefix.
MainGenerateSessionIDPrefixed(t) == "session-" \o Format(t)

\* generateSessionID of main.go when time.Now() returns t
MainGenerateSessionID(t) == Format(t)

\* main.go: if sessionID == "" { sessionID = generateSessionID() }
MainResolveID(sessionID, t) ==
    IF sessionID = "" THEN MainGenerateSessionID(t) ELSE sessionID

\* main.go: ChatResponse{...} encoded with no WriteHeader: 200.
MainChatResponse(response, sessionID, error) ==
    [Status |-> 200, Response |-> response, SessionID |-> sessionID,
     Error |-> error]

\* main.go: a request out of requests arrives: the handler answers 405
\* itself, then decodes the body, then checks req.Message.
MainArriveFrom(r, requests) ==
    /\ Accepting
    /\ UNCHANGED life
    /\ pc[r] = "idle"
    /\ \A q \in Reqs : q < r => pc[q] # "idle"
    /\ \E request \in requests :
         /\ req' = [req EXCEPT ![r] = request]
         /\ IF request.Method # "POST"
            THEN /\ resp' = [resp EXCEPT ![r] =
                               [Status |-> 405, Response |-> "",
                                SessionID |-> "", Error |-> ""]]
                 /\ pc' = [pc EXCEPT ![r] = "done"]
            ELSE IF ~request.Valid
            THEN /\ resp' = [resp EXCEPT ![r] =
                               MainChatResponse("", "", "Invalid JSON format")]
                 /\ pc' = [pc EXCEPT ![r] = "done"]
            ELSE IF request.Message = ""
            THEN /\ resp' = [resp EXCEPT ![r] =
                               MainChatResponse("", "", "Message is required")]
                 /\ pc' = [pc EXCEPT ![r] = "done"]
            ELSE /\ resp' = resp
                 /\ pc' = [pc EXCEPT ![r] = "getorcreate"]
    /\ UNCHANGED <<now, sessions, objs, smMu, svc, chatSess,
                   err, createErr, events, responseText>>

\* main.go: sm.mu.Lock() of GetOrCreate
MainSmLock(r) ==
    /\ Alive
    /\ UNCHANGED life
    /\ pc[r] = "getorcreate"
    /\ smMu = NoReq
    /\ smMu' = r
    /\ pc' = [pc EXCEPT ![r] = "registry"]
    /\ UNCHANGED <<now, sessions, objs, svc, req, chatSess,
                   err, createErr, events, responseText, resp>>

\* main.go: the body of GetOrCreate under sm.mu, and its deferred unlock.
MainGetOrCreate(r) ==
    /\ Alive
    /\ UNCHANGED life
    /\ pc[r] = "registry"
    /\ smMu = r
    /\ \E t \in ClockReads(req[r].SessionID) :
         LET sessionID == MainResolveID(req[r].SessionID, t)
         IN  /\ now' = t
             /\ IF sessionID \in DOMAIN sessions
                THEN /\ chatSess' =
                          [chatSess EXCEPT ![r] = sessions[sessionID]]
                     /\ UNCHANGED <<sessions, objs>>
                ELSE LET o == Len(objs) + 1
                     IN  /\ objs' = Append(objs,
                                      [ID |-> sessionID, Agent |-> AgentName,
                                       History |-> <<>>, Mu |-> NoReq])
                         /\ sessions' =
                              [k \in DOMAIN sessions \cup {sessionID} |->
                                 IF k = sessionID THEN o ELSE sessions[k]]
                         /\ chatSess' = [chatSess EXCEPT ![r] = o]
    /\ smMu' = NoReq
    /\ pc' = [pc EXCEPT ![r] = "lock"]
    /\ UNCHANGED <<svc, req, err, createErr, events, responseText, resp>>

\* main.go: chatSess.mu.Lock()
MainMuLock(r) ==
    /\ Alive
    /\ UNCHANGED life
    /\ pc[r] = "lock"
    /\ objs[chatSess[r]].Mu = NoReq
    /\ objs' = [objs EXCEPT ![chatSess[r]].Mu = r]
    /\ pc' = [pc EXCEPT ![r] = "get"]
    /\ UNCHANGED <<now, sessions, smMu, svc, req, chatSess,
                   err, createErr, events, responseText, resp>>

\* main.go: the handler returns with response; defer chatSess.mu.Unlock().
MainReturn(r, response) ==
    /\ resp' = [resp EXCEPT ![r] = response]
    /\ objs' = [objs EXCEPT ![chatSess[r]].Mu = NoReq]
    /\ responseText' = [responseText EXCEPT ![r] = ""]
    /\ events' = [events EXCEPT ![r] = <<>>]
    /\ err' = [err EXCEPT ![r] = ""]
    /\ createErr' = [createErr EXCEPT ![r] = ""]
    /\ pc' = [pc EXCEPT ![r] = "done"]

\* main.go: sessionService.Get(execCtx, &session.GetRequest{AppName,
\* SessionID}); if err != nil the handler goes on to Create.
MainSessionServiceGet(r) ==
    /\ Alive
    /\ UNCHANGED life
    /\ pc[r] = "get"
    /\ \E e \in {"", ErrNotFound} \cup StoreFailures :
         /\ e = "" => Stored("", objs[chatSess[r]].ID)
         /\ e = ErrNotFound => ~Stored("", objs[chatSess[r]].ID)
         /\ err' = [err EXCEPT ![r] = e]
         /\ pc' = [pc EXCEPT ![r] = IF e = "" THEN "run" ELSE "create"]
    /\ UNCHANGED <<now, sessions, objs, smMu, svc, req, chatSess,
                   createErr, events, responseText, resp>>

\* main.go: sessionService.Create(execCtx, &session.CreateRequest{AppName,
\* SessionID, UserID: "default-user"}) and the handling of createErr.
MainSessionServiceCreate(r) ==
    /\ Alive
    /\ UNCHANGED life
    /\ pc[r] = "create"
    /\ LET id == objs[chatSess[r]].ID
       IN  \E e \in {"", ErrAlreadyExists} \cup StoreFailures :
             /\ e = "" => ~Stored("default-user", id)
             /\ e = ErrAlreadyExists => Stored("default-user", id)
             /\ svc' = IF e = ""
                       THEN [k \in DOMAIN svc \cup {id} |->
                               IF k = id THEN <<>> ELSE svc[k]]
                       ELSE svc
             /\ IF e # "" /\ e # ErrAlreadyExists
                THEN MainReturn(r, MainChatResponse("", id,
                                     "Failed to create session: " \o e))
                ELSE /\ pc' = [pc EXCEPT ![r] = "run"]
                     /\ err' = [err EXCEPT ![r] = ""]
                     /\ createErr' = [createErr EXCEPT ![r] = e]
                     /\ UNCHANGED <<objs, events, responseText, resp>>
    /\ UNCHANGED <<now, sessions, smMu, req, chatSess>>

\* main.go: agentRunner.Run(execCtx, "default-user", chatSess.ID, ...)
MainRunnerRun(r) ==
    /\ Alive
    /\ UNCHANGED life
    /\ pc[r] = "run"
    /\ LET id == objs[chatSess[r]].ID
       IN  svc' = [svc EXCEPT ![id] =
                     Append(@, [turn |-> r, role |-> "user"])]
    /\ pc' = [pc EXCEPT ![r] = "stream"]
    /\ createErr' = [createErr EXCEPT ![r] = ""]
    /\ UNCHANGED <<now, sessions, objs, smMu, req, chatSess,
                   err, events, responseText, resp>>

RECURSIVE MainPartsText(_)
\* main.go: for _, part := range event.Content.Parts { if part.Text != ""
\* { responseText.WriteString(part.Text) } }
MainPartsText(parts) ==
    IF parts = <<>> THEN ""
    ELSE (IF Head(parts) = "" THEN "" ELSE Head(parts))
            \o MainPartsText(Tail(parts))

\* main.go: one iteration of the range loop over an event, the agent
\* delivering one of evs.
MainAgentEventFrom(r, evs) ==
    /\ Alive
    /\ UNCHANGED life
    /\ pc[r] = "stream"
    /\ LET id == objs[chatSess[r]].ID
       IN  /\ Cardinality(Delivered(id, r)) < MaxEvents
           /\ \E event \in evs :
                /\ responseText' =
                     [responseText EXCEPT ![r] =
                        IF event.HasContent /\ Len(event.Parts) > 0
                        THEN @ \o MainPartsText(event.Parts)
                        ELSE @]
                /\ events' = [events EXCEPT ![r] = Append(@, event)]
                /\ svc' = [svc EXCEPT ![id] =
                             Append(@, [turn |-> r, role |-> "model"])]
    /\ UNCHANGED <<now, sessions, objs, smMu, pc, req, chatSess,
                   err, createErr, resp>>

\* main.go: the loop meets an error element: break, then the error response.
MainAgentError(r) ==
    /\ Alive
    /\ UNCHANGED life
    /\ pc[r] = "stream"
    /\ MainReturn(r, MainChatResponse("", objs[chatSess[r]].ID,
                        "Failed to process message: " \o ErrAgent))
    /\ UNCHANGED <<now, sessions, smMu, svc, req, chatSess>>

\* main.go: the sequence is exhausted: the reply, or the fallback.
MainAgentDone(r) ==
    /\ Alive
    /\ UNCHANGED life
    /\ pc[r] = "stream"
    /\ MainReturn(r, MainChatResponse(
                        IF responseText[r] = ""
                        THEN "O agente processou a mensagem, mas não retornou uma resposta."
                        ELSE responseText[r],
                        objs[chatSess[r]].ID, ""))
    /\ UNCHANGED <<now, sessions, smMu, svc, req, chatSess>>

\* The requests of clients that start a conversation without an id and go
\* on with the id a response has returned.
EquivRequests ==
    { q \in Requests :
        q.SessionID \in {""} \cup { resp[p].SessionID : p \in DOMAIN resp } }

\* An agent whose events carry content.
EquivEvents == Events \ { NilEvent }

\* The refactored variant serving these.
RefNext ==
    \/ \E r \in Reqs : ArriveFrom(r, EquivRequests)
    \/ \E r \in Reqs : SmLock(r)
    \/ \E r \in Reqs : GetOrCreate(r)
    \/ \E r \in Reqs : MuLock(r)
    \/ \E r \in Reqs : SessionServiceGet(r)
    \/ \E r \in Reqs : SessionServiceCreate(r)
    \/ \E r \in Reqs : RunnerRun(r)
    \/ \E r \in Reqs : AgentEventFrom(r, EquivEvents)
    \/ \E r \in Reqs : AgentError(r)
    \/ \E r \in Reqs : AgentDone(r)

\* The monolithic variant serving them.
MainNext ==
    \/ \E r \in Reqs : MainArriveFrom(r, EquivRequests)
    \/ \E r \in Reqs : MainSmLock(r)
    \/ \E r \in Reqs : MainGetOrCreate(r)
    \/ \E r \in Reqs : MainMuLock(r)
    \/ \E r \in Reqs : MainSessionServiceGet(r)
    \/ \E r \in Reqs : MainSessionServiceCreate(r)
    \/ \E r \in Reqs : MainRunnerRun(r)
    \/ \E r \in Reqs : MainAgentEventFrom(r, EquivEvents)
    \/ \E r \in Reqs : MainAgentError(r)
    \/ \E r \in Reqs : MainAgentDone(r)

\* Either variant serves the requests: every step either of them can take.
BothSpec == Init /\ [][RefNext \/ MainNext]_vars

====
